---- MODULE Spec2Model ----
(***************************************************************************)
(* StellArts backend: the booking status state machine                     *)
(* (app/api/v1/endpoints/booking.py) and the escrow payment saga           *)
(* (app/services/payments.py), as request handlers running against one     *)
(* shared store and one external ledger.                                   *)
(*                                                                         *)
(* A request handler is a process position (call[p].pc): it advances one   *)
(* store query, one ledger call or one commit at a time, so two handlers   *)
(* interleave exactly where the code can be suspended.  The serial         *)
(* specifications start from InitSerial and run the same steps with one    *)
(* request in flight at a time.                                            *)
(***************************************************************************)
EXTENDS Integers, Sequences, FiniteSets, TLC

(* ------------------------------------------------------------------ *)
(* Bounds of the model                                                 *)
(* ------------------------------------------------------------------ *)
NumProcs == 2
MaxCalls == 4
MaxBookings == 1
MaxOverlap == 1
MaxAmount == 25
PathCalls == 6

Procs == 1..NumProcs

(* ------------------------------------------------------------------ *)
(* Users, roles and profiles                                           *)
(* ------------------------------------------------------------------ *)
Users == {"c1", "c2", "a1", "a2", "adm"}

RoleOf(u) ==
    CASE u \in {"c1", "c2"} -> "client"
      [] u \in {"a1", "a2", "a3"} -> "artisan"
      [] OTHER -> "admin"

\* Artisan rows, keyed by the user: a1 has a profile, a2 has none; a3 has a profile
\* and is not in Users: it is the artisan of bookings other users made.
ArtisanProfiles == {"a1", "a3"}

(* ------------------------------------------------------------------ *)
(* BookingStatus                                                       *)
(* ------------------------------------------------------------------ *)
PENDING == "pending"
CONFIRMED == "confirmed"
IN_PROGRESS == "in_progress"
COMPLETED == "completed"
CANCELLED == "cancelled"

BookingStatus == {PENDING, CONFIRMED, IN_PROGRESS, COMPLETED, CANCELLED}

\* What a status payload may carry: a status value, a string that is no status, or "".
StatusPayloads == BookingStatus \cup {"bogus", ""}

(* ------------------------------------------------------------------ *)
(* Booking ids: uuid4 strings, as tuples of characters                 *)
(* ------------------------------------------------------------------ *)
Z4 == <<"0", "0", "0", "0">>
Dash == <<"-">>
UuidOf(first, last) ==
    <<first>> \o SubSeq(Z4, 1, 3) \o Z4 \o Dash \o Z4 \o Dash
      \o <<"4">> \o SubSeq(Z4, 1, 3) \o Dash \o <<"8">> \o SubSeq(Z4, 1, 3) \o Dash
      \o Z4 \o Z4 \o SubSeq(Z4, 1, 3) \o <<last>>

IdA == UuidOf("0", "a")
IdB == UuidOf("0", "b")
IdC == UuidOf("c", "c")
BookingIdPool == {IdA, IdB, IdC}

(* ------------------------------------------------------------------ *)
(* State                                                               *)
(* ------------------------------------------------------------------ *)
VARIABLES
    bookings,   \* the bookings table: a sequence of rows [id, client_id, artisan_id, status]
    clients,    \* the clients table: the users that have a Client row
    payments,   \* the payments table: a sequence of rows, the row's index is its id
    ledger,     \* the transactions the ledger has accepted, in order
    call,       \* per worker: the request it is handling and where it stands in it
    ncalls,     \* requests started so far
    visited,    \* per booking row: the statuses that have been committed to it
    escrow_keypair,  \* whether STELLAR_ESCROW_SECRET configured a signing key
    prepared,   \* the booking ids for which prepare has returned an envelope
    overlaps    \* how many more requests may start while another is in flight

vars ==
    <<bookings, clients, payments, ledger, call, ncalls, visited, escrow_keypair, prepared,
      overlaps>>

NoId == <<>>

\* No envelope: the fields of a transaction envelope, all empty.
NoXdr ==
    [hash |-> 0, source |-> "", destination |-> "", amount |-> 0, memo |-> <<>>, ops |-> 0,
     signatures |-> 0, parses |-> FALSE]

NoResult ==
    [code |-> 0, status |-> "", detail |-> "", payment_id |-> 0, transaction_hash |-> 0,
     unsigned_xdr |-> NoXdr]

\* A worker's request: the caller (user, with is_verified as verified, and
\* settings.REQUIRE_EMAIL_VERIFICATION as gate), its arguments (booking_id, req, xdr,
\* to_account, client_public, amount),
\* the handler's local variables (cur, held, tx_hash, resolved) and its response (res).
\* rows0, ledger0 and resp are bookkeeping: the number of payment rows and of ledger
\* entries when the request arrived, and what the ledger call of the request did
\* ("accepted", "rejected", "failed"; "" while there was none).
Idle ==
    [op |-> "none", pc |-> "idle", user |-> "", verified |-> FALSE, gate |-> FALSE,
     booking_id |-> NoId, req |-> "",
     xdr |-> 0, to_account |-> "", client_public |-> "", amount |-> 0,
     cur |-> "", held |-> 0, tx_hash |-> 0, resolved |-> NoId, rows0 |-> 0, ledger0 |-> 0,
     resp |-> "", res |-> NoResult]

BookingIndex(bid) == {i \in 1..Len(bookings) : bookings[i].id = bid}

Http(code, detail) == [NoResult EXCEPT !.code = code, !.status = "error", !.detail = detail]

Free(p) == call[p].pc = "idle"

\* No request is in flight.
Quiet == \A q \in Procs : Free(q)

\* The first free worker takes the next request.
Admit(p) ==
    /\ Free(p)
    /\ \A q \in Procs : q < p => ~Free(q)
    /\ ncalls < MaxCalls
    /\ Quiet \/ overlaps > 0
    /\ ncalls' = ncalls + 1
    /\ overlaps' = IF Quiet THEN overlaps ELSE overlaps - 1

(* ------------------------------------------------------------------ *)
(* POST /bookings/create                                               *)
(* ------------------------------------------------------------------ *)
\* bid is the uuid4 the new row gets.
create_booking(u, artisan_id, bid) ==
    /\ Len(bookings) < MaxBookings
    /\ RoleOf(u) = "client"
    /\ artisan_id \in ArtisanProfiles
    /\ BookingIndex(bid) = {}
    /\ bookings' = Append(bookings,
          [id |-> bid, client_id |-> u, artisan_id |-> artisan_id, status |-> PENDING])
    /\ clients' = clients \cup {u}
    /\ visited' = Append(visited, {PENDING})
    /\ UNCHANGED <<payments, ledger, call, ncalls, escrow_keypair, prepared, overlaps>>

(* ------------------------------------------------------------------ *)
(* PUT /bookings/{booking_id}/status                                   *)
(* ------------------------------------------------------------------ *)
IsStatus(s) == s \in BookingStatus

\* Mutants of TransitionRules: the state test of "confirmed" dropped; the role test
\* of "confirmed" dropped; clients allowed to cancel confirmed bookings as well.
TransitionRules_AnyStateConfirm(current_status, new_status, is_artisan, is_client) ==
    CASE new_status = CONFIRMED ->
            IF ~is_artisan THEN Http(403, "Only the artisan can confirm a booking")
            ELSE [NoResult EXCEPT !.code = 200]
      [] new_status = IN_PROGRESS ->
            IF current_status # CONFIRMED THEN Http(400, "Cannot start booking")
            ELSE IF ~is_artisan THEN Http(403, "Only the artisan can start a booking")
            ELSE [NoResult EXCEPT !.code = 200]
      [] new_status = COMPLETED ->
            IF current_status # IN_PROGRESS THEN Http(400, "Cannot complete booking")
            ELSE IF ~is_client
              THEN Http(403, "Only the client can mark a booking as completed")
            ELSE [NoResult EXCEPT !.code = 200]
      [] new_status = CANCELLED ->
            IF is_client /\ current_status # PENDING
              THEN Http(403, "Clients can only cancel pending bookings")
            ELSE IF ~is_client /\ current_status \notin {PENDING, CONFIRMED, IN_PROGRESS}
              THEN Http(403, "Artisans can only cancel pending, confirmed, or in-progress bookings")
            ELSE [NoResult EXCEPT !.code = 200]
      [] OTHER -> Http(400, "Invalid status transition")

TransitionRules_AnyoneConfirms(current_status, new_status, is_artisan, is_client) ==
    CASE new_status = CONFIRMED ->
            IF current_status # PENDING THEN Http(400, "Cannot confirm booking")
            ELSE [NoResult EXCEPT !.code = 200]
      [] new_status = IN_PROGRESS ->
            IF current_status # CONFIRMED THEN Http(400, "Cannot start booking")
            ELSE IF ~is_artisan THEN Http(403, "Only the artisan can start a booking")
            ELSE [NoResult EXCEPT !.code = 200]
      [] new_status = COMPLETED ->
            IF current_status # IN_PROGRESS THEN Http(400, "Cannot complete booking")
            ELSE IF ~is_client
              THEN Http(403, "Only the client can mark a booking as completed")
            ELSE [NoResult EXCEPT !.code = 200]
      [] new_status = CANCELLED ->
            IF is_client /\ current_status # PENDING
              THEN Http(403, "Clients can only cancel pending bookings")
            ELSE IF ~is_client /\ current_status \notin {PENDING, CONFIRMED, IN_PROGRESS}
              THEN Http(403, "Artisans can only cancel pending, confirmed, or in-progress bookings")
            ELSE [NoResult EXCEPT !.code = 200]
      [] OTHER -> Http(400, "Invalid status transition")

TransitionRules_ClientCancelsConfirmed(current_status, new_status, is_artisan, is_client) ==
    CASE new_status = CONFIRMED ->
            IF current_status # PENDING THEN Http(400, "Cannot confirm booking")
            ELSE IF ~is_artisan THEN Http(403, "Only the artisan can confirm a booking")
            ELSE [NoResult EXCEPT !.code = 200]
      [] new_status = IN_PROGRESS ->
            IF current_status # CONFIRMED THEN Http(400, "Cannot start booking")
            ELSE IF ~is_artisan THEN Http(403, "Only the artisan can start a booking")
            ELSE [NoResult EXCEPT !.code = 200]
      [] new_status = COMPLETED ->
            IF current_status # IN_PROGRESS THEN Http(400, "Cannot complete booking")
            ELSE IF ~is_client
              THEN Http(403, "Only the client can mark a booking as completed")
            ELSE [NoResult EXCEPT !.code = 200]
      [] new_status = CANCELLED ->
            IF is_client /\ current_status \notin {PENDING, CONFIRMED}
              THEN Http(403, "Clients can only cancel pending bookings")
            ELSE IF ~is_client /\ current_status \notin {PENDING, CONFIRMED, IN_PROGRESS}
              THEN Http(403, "Artisans can only cancel pending, confirmed, or in-progress bookings")
            ELSE [NoResult EXCEPT !.code = 200]
      [] OTHER -> Http(400, "Invalid status transition")

\* Mutant of TransitionRules: "completed" is taken from a confirmed booking as well.
TransitionRules_CompleteFromConfirmed(current_status, new_status, is_artisan, is_client) ==
    CASE new_status = CONFIRMED ->
            IF current_status # PENDING THEN Http(400, "Cannot confirm booking")
            ELSE IF ~is_artisan THEN Http(403, "Only the artisan can confirm a booking")
            ELSE [NoResult EXCEPT !.code = 200]
      [] new_status = IN_PROGRESS ->
            IF current_status # CONFIRMED THEN Http(400, "Cannot start booking")
            ELSE IF ~is_artisan THEN Http(403, "Only the artisan can start a booking")
            ELSE [NoResult EXCEPT !.code = 200]
      [] new_status = COMPLETED ->
            IF current_status \notin {CONFIRMED, IN_PROGRESS}
              THEN Http(400, "Cannot complete booking")
            ELSE IF ~is_client
              THEN Http(403, "Only the client can mark a booking as completed")
            ELSE [NoResult EXCEPT !.code = 200]
      [] new_status = CANCELLED ->
            IF is_client /\ current_status # PENDING
              THEN Http(403, "Clients can only cancel pending bookings")
            ELSE IF ~is_client /\ current_status \notin {PENDING, CONFIRMED, IN_PROGRESS}
              THEN Http(403, "Artisans can only cancel pending, confirmed, or in-progress bookings")
            ELSE [NoResult EXCEPT !.code = 200]
      [] OTHER -> Http(400, "Invalid status transition")

\* The role rules of the state machine, in the order the handler tests them.
\* The result is the HTTP outcome: code 200 means the change is applied.
TransitionRules(current_status, new_status, is_artisan, is_client) ==
    CASE new_status = CONFIRMED ->
            IF current_status # PENDING
              THEN Http(400, "Cannot confirm booking")
            ELSE IF ~is_artisan
              THEN Http(403, "Only the artisan can confirm a booking")
            ELSE [NoResult EXCEPT !.code = 200]
      [] new_status = IN_PROGRESS ->
            IF current_status # CONFIRMED
              THEN Http(400, "Cannot start booking")
            ELSE IF ~is_artisan
              THEN Http(403, "Only the artisan can start a booking")
            ELSE [NoResult EXCEPT !.code = 200]
      [] new_status = COMPLETED ->
            IF current_status # IN_PROGRESS
              THEN Http(400, "Cannot complete booking")
            ELSE IF ~is_client
              THEN Http(403, "Only the client can mark a booking as completed")
            ELSE [NoResult EXCEPT !.code = 200]
      [] new_status = CANCELLED ->
            IF is_client
              THEN IF current_status # PENDING
                     THEN Http(403, "Clients can only cancel pending bookings")
                     ELSE [NoResult EXCEPT !.code = 200]
            ELSE IF is_artisan
              THEN IF current_status \notin {PENDING, CONFIRMED, IN_PROGRESS}
                     THEN Http(403, "Artisans can only cancel pending, confirmed, or in-progress bookings")
                     ELSE [NoResult EXCEPT !.code = 200]
            ELSE [NoResult EXCEPT !.code = 200]
      [] OTHER -> Http(400, "Invalid status transition")

\* Mutant of StatusDecision: the association check is left out.
StatusDecision_NoAssociation(role, is_artisan, is_client, current_status, payload) ==
    IF role = "admin"
      THEN IF payload = "" THEN [NoResult EXCEPT !.code = 200, !.detail = "unchanged"]
           ELSE IF ~IsStatus(payload) THEN Http(400, "Invalid status")
           ELSE [NoResult EXCEPT !.code = 200]
    ELSE IF payload = "" THEN Http(400, "Status is required")
    ELSE IF ~IsStatus(payload) THEN Http(400, "Invalid status")
    ELSE TransitionRules(current_status, payload, is_artisan, is_client)

\* Everything the handler decides between loading the booking and committing:
\* the admin bypass, the association check, the payload checks and the rules.
StatusDecision(role, is_artisan, is_client, current_status, payload) ==
    IF role = "admin"
      THEN IF payload = "" THEN [NoResult EXCEPT !.code = 200, !.detail = "unchanged"]
           ELSE IF ~IsStatus(payload) THEN Http(400, "Invalid status")
           ELSE [NoResult EXCEPT !.code = 200]
    ELSE IF ~is_artisan /\ ~is_client
      THEN Http(403, "You are not authorized to update this booking")
    ELSE IF payload = "" THEN Http(400, "Status is required")
    ELSE IF ~IsStatus(payload) THEN Http(400, "Invalid status")
    ELSE TransitionRules(current_status, payload, is_artisan, is_client)

\* A decision that writes booking.status and commits.
Writes(d) == d.code = 200 /\ d.detail # "unchanged"

\* The request arrives and the handler loads the row:
\* db.query(Booking).filter(Booking.id == booking_id).first()
UbsLoad(p, u, bid, payload) ==
    /\ Admit(p)
    /\ LET c == [Idle EXCEPT !.op = "status", !.user = u, !.booking_id = bid,
                             !.req = payload]
       IN  IF BookingIndex(bid) = {}
             THEN call' = [call EXCEPT ![p] =
                      [c EXCEPT !.pc = "done", !.res = Http(404, "Booking not found")]]
             ELSE \E i \in BookingIndex(bid) :
                    call' = [call EXCEPT ![p] =
                      [c EXCEPT !.pc = "ubs_apply", !.cur = bookings[i].status]]
    /\ UNCHANGED <<bookings, clients, payments, ledger, visited, escrow_keypair, prepared>>

\* The profile lookups, the decision on the loaded row, and the commit.
UbsApply(p) ==
    /\ call[p].pc = "ubs_apply"
    /\ \E i \in BookingIndex(call[p].booking_id) :
         LET c == call[p]
             role == RoleOf(c.user)
             is_artisan == role = "artisan" /\ c.user \in ArtisanProfiles
                             /\ bookings[i].artisan_id = c.user
             is_client == role = "client" /\ c.user \in clients
                             /\ bookings[i].client_id = c.user
             d == StatusDecision(role, is_artisan, is_client, c.cur, c.req)
         IN  IF Writes(d)
               THEN /\ bookings' = [bookings EXCEPT ![i].status = c.req]
                    /\ visited' = [visited EXCEPT ![i] = @ \cup {c.req}]
                    /\ call' = [call EXCEPT ![p].pc = "done",
                                            ![p].res = [d EXCEPT !.status = c.req]]
               ELSE /\ call' = [call EXCEPT ![p].pc = "done",
                          ![p].res = IF d.code = 200 THEN [d EXCEPT !.status = c.cur]
                                     ELSE d]
                    /\ UNCHANGED <<bookings, visited>>
    /\ UNCHANGED <<clients, payments, ledger, ncalls, escrow_keypair, prepared, overlaps>>


(* ------------------------------------------------------------------ *)
(* Payments: statuses, accounts, amounts, memos                        *)
(* ------------------------------------------------------------------ *)
\* PaymentStatus.PENDING, .COMPLETED, .REFUNDED
PAY_PENDING == "pending"
PAY_COMPLETED == "completed"
PAY_REFUNDED == "refunded"

ESCROW_PUBLIC == "GESCROW"
Wallets == {"GCLIENT", "GARTISAN"}

MAX_MEMO_LENGTH == 28

\* Amounts are counted in units of 10^-8; the ledger's precision, 10^-7, is 10 units.
LedgerPrecision == 10
Amounts == {20, 35}

\* Mutant of _sanitize_amount: rounding to the nearest multiple, half up.
_sanitize_amount_HalfUp(amount) ==
    ((amount + LedgerPrecision \div 2) \div LedgerPrecision) * LedgerPrecision

\* amount.quantize(Decimal("0.0000001"), rounding=ROUND_DOWN), for amount > 0
_sanitize_amount(amount) == (amount \div LedgerPrecision) * LedgerPrecision

Take(s, n) == SubSeq(s, 1, IF Len(s) < n THEN Len(s) ELSE n)

StartsWith(s, prefix) ==
    /\ Len(prefix) <= Len(s)
    /\ SubSeq(s, 1, Len(prefix)) = prefix

HoldTag == <<"h", "o", "l", "d", "-">>
ReleaseTag == <<"r", "e", "l", "e", "a", "s", "e", "-">>
RefundTag == <<"r", "e", "f", "u", "n", "d", "-">>

\* Mutant of Memo: the text is not cut.
Memo_Uncut(tag, booking_id) == tag \o booking_id

\* f"hold-{booking_id}"[:MAX_MEMO_LENGTH], and the same for release- and refund-
Memo(tag, booking_id) == Take(tag \o booking_id, MAX_MEMO_LENGTH)

\* memo_text.replace("hold-", ""): every occurrence is removed, left to right
RECURSIVE RemoveHold(_)
RemoveHold(s) ==
    IF s = <<>> THEN <<>>
    ELSE IF StartsWith(s, HoldTag) THEN RemoveHold(SubSeq(s, Len(HoldTag) + 1, Len(s)))
    ELSE <<Head(s)>> \o RemoveHold(Tail(s))

HexDigits == {"0", "1", "2", "3", "4", "5", "6", "7", "8", "9", "a", "b", "c", "d", "e", "f"}
NotDash(ch) == ch # "-"

\* uuid.UUID(token) does not raise: 32 hex digits once the hyphens are dropped
IsUuid(token) ==
    LET hex == SelectSeq(token, NotDash)
    IN  /\ Len(hex) = 32
        /\ \A k \in 1..Len(hex) : hex[k] \in HexDigits

\* The booking ids str(row[0]).startswith(booking_token) keeps
Candidates(token) == {i \in 1..Len(bookings) : StartsWith(bookings[i].id, token)}

(* ------------------------------------------------------------------ *)
(* Wallet-signed envelopes a client may post to submit                 *)
(* ------------------------------------------------------------------ *)
\* hash: the transaction's hash on the ledger (two envelopes are two transactions);
\* ops: number of operations; destination, amount: of its first operation;
\* signatures: how many signatures it carries; parses: TransactionEnvelope.from_xdr
\* accepts the string.
Envelope(hash, source, destination, amount, memo, ops) ==
    [hash |-> hash, source |-> source, destination |-> destination,
     amount |-> amount, memo |-> memo, ops |-> ops, signatures |-> 1, parses |-> TRUE]

\* A string that is not the XDR of a transaction envelope.
Garbage == [NoXdr EXCEPT !.hash = 6]

XdrPool ==
    { Envelope(1, "GCLIENT", ESCROW_PUBLIC, 20, Memo(HoldTag, IdA), 1),
      Envelope(2, "GCLIENT", ESCROW_PUBLIC, 20, Memo(HoldTag, IdA), 1),
      Envelope(3, "GCLIENT", ESCROW_PUBLIC, 20, Memo(HoldTag, IdC), 1),
      Envelope(4, "GCLIENT", "GARTISAN", 20, Memo(HoldTag, IdA), 1),
      Envelope(5, "GCLIENT", ESCROW_PUBLIC, 20, Memo(HoldTag, IdA), 2),
      Garbage }

XdrOf(h) == CHOOSE x \in XdrPool : x.hash = h

LedgerHashes == {ledger[k].hash : k \in 1..Len(ledger)}

\* The hash the ledger gives the next transaction the escrow account signs.
EscrowHash == 100 + Len(ledger) + 1

\* A ledger entry; booking_id is bookkeeping (the booking a release or refund was for).
LedgerTx(hash, source, destination, amount, memo, booking_id) ==
    [hash |-> hash, source |-> source, destination |-> destination,
     amount |-> amount, memo |-> memo, booking_id |-> booking_id]

(* ------------------------------------------------------------------ *)
(* _record_payment                                                     *)
(* ------------------------------------------------------------------ *)
PaymentHashes == {payments[k].transaction_hash : k \in 1..Len(payments)}

\* Mutant of InsertAccepted: no unique index on transaction_hash.
InsertAccepted_NoUniqueIndex(booking_id, tx_hash) == BookingIndex(booking_id) # {}

\* The insert commits: the hash is not in use (unique index) and the booking exists.
InsertAccepted(booking_id, tx_hash) ==
    /\ tx_hash \notin PaymentHashes
    /\ BookingIndex(booking_id) # {}

PaymentRow(booking_id, tx_hash, status, amount, from_acc, to_acc, memo) ==
    [id |-> Len(payments) + 1, booking_id |-> booking_id, transaction_hash |-> tx_hash,
     status |-> status, amount |-> amount, from_account |-> from_acc,
     to_account |-> to_acc, memo |-> memo]

\* Mutant of _record_payment: every row is stored as PENDING.
_record_payment_Pending(booking_id, tx_hash, status, amount, from_acc, to_acc, memo) ==
    Append(payments,
           PaymentRow(booking_id, tx_hash, PAY_PENDING, amount, from_acc, to_acc, memo))

_record_payment(booking_id, tx_hash, status, amount, from_acc, to_acc, memo) ==
    Append(payments, PaymentRow(booking_id, tx_hash, status, amount, from_acc, to_acc, memo))

Success(payment_id, tx_hash) ==
    [NoResult EXCEPT !.status = "success", !.payment_id = payment_id,
                     !.transaction_hash = tx_hash]

Exists(row) ==
    [NoResult EXCEPT !.status = "exists", !.payment_id = row.id,
                     !.transaction_hash = row.transaction_hash]

Error(message) == [NoResult EXCEPT !.status = "error", !.detail = message]

RowsOfBooking(booking_id) == {k \in 1..Len(payments) : payments[k].booking_id = booking_id}

RowsOf(booking_id, status) ==
    {k \in 1..Len(payments) :
        payments[k].booking_id = booking_id /\ payments[k].status = status}

(* ------------------------------------------------------------------ *)
(* submit_signed_payment                                               *)
(* ------------------------------------------------------------------ *)
\* str(e) of the ledger's BadRequestError or BadResponseError
LedgerMessage == "ledger rejected"

\* Mutant of StructureValid: the destination is not looked at.
StructureValid_OpsOnly(x) == x.ops = 1

\* The two assertions pass: one operation, paying the escrow account.
StructureValid(x) == x.ops = 1 /\ x.destination = ESCROW_PUBLIC

\* What the caller of submit_signed_payment gets for its result r: a direct caller gets
\* r; the endpoint raises 400 with the message of an error and returns anything else.
Answer(c, r) ==
    IF c.op # "post_submit" THEN r
    ELSE IF r.status = "error" THEN Http(400, r.detail)
    ELSE [r EXCEPT !.code = 200]

\* from_xdr, the two assertions, and server.submit_transaction(tx), for the request c
\* of worker p with the envelope of hash h
SubSend(p, c, h) ==
    LET x == XdrOf(h)
    IN  IF ~x.parses
          THEN \* from_xdr raises: "except Exception"
               /\ call' = [call EXCEPT ![p] =
                     [c EXCEPT !.pc = "done",
                               !.res = Answer(c, Error("Invalid or rejected transaction"))]]
               /\ UNCHANGED ledger
        ELSE IF ~StructureValid(x)
          THEN /\ call' = [call EXCEPT ![p] =
                     [c EXCEPT !.pc = "done",
                               !.res = Answer(c, Error("Transaction structure invalid"))]]
               /\ UNCHANGED ledger
          ELSE \/ \* accepted; an envelope the ledger already holds is answered again
                  /\ ledger' = IF x.hash \in LedgerHashes THEN ledger
                               ELSE Append(ledger,
                                      LedgerTx(x.hash, x.source, x.destination,
                                               x.amount, x.memo, NoId))
                  /\ call' = [call EXCEPT ![p] =
                        [c EXCEPT !.pc = "sub_resolve", !.tx_hash = x.hash,
                                  !.resp = "accepted"]]
               \/ \* BadRequestError, BadResponseError: db.rollback()
                  /\ call' = [call EXCEPT ![p] =
                        [c EXCEPT !.pc = "done", !.resp = "rejected",
                                  !.res = Answer(c, Error(LedgerMessage))]]
                  /\ UNCHANGED ledger
               \/ \* any other exception of the call
                  /\ call' = [call EXCEPT ![p] =
                        [c EXCEPT !.pc = "done", !.resp = "failed",
                                  !.res = Answer(c, Error("Invalid or rejected transaction"))]]
                  /\ UNCHANGED ledger

\* The request arrives: from_xdr, the two assertions, and server.submit_transaction(tx)
SubSubmit(p, h) ==
    /\ Admit(p)
    /\ SubSend(p, [Idle EXCEPT !.op = "submit", !.xdr = h, !.rows0 = Len(payments),
                               !.ledger0 = Len(ledger)], h)
    /\ UNCHANGED <<bookings, clients, payments, visited, escrow_keypair, prepared>>

\* Mutant of SubResolve: with several matching booking ids, one of them is taken.
SubResolve_AnyMatch(p) ==
    /\ call[p].pc = "sub_resolve"
    /\ LET token == RemoveHold(XdrOf(call[p].xdr).memo)
       IN  IF Candidates(token) = {}
             THEN call' = [call EXCEPT ![p].pc = "done",
                      ![p].res = Answer(call[p],
                                  Error("Unable to resolve booking from transaction memo"))]
           ELSE \E i \in Candidates(token) :
                  call' = [call EXCEPT ![p].pc = "sub_record", ![p].resolved = bookings[i].id]
    /\ UNCHANGED <<bookings, clients, payments, ledger, ncalls, visited, escrow_keypair, prepared, overlaps>>

\* The memo's token is a full id, or the one booking id that starts with it.
SubResolve(p) ==
    /\ call[p].pc = "sub_resolve"
    /\ LET token == RemoveHold(XdrOf(call[p].xdr).memo)
       IN  IF IsUuid(token)
             THEN call' = [call EXCEPT ![p].pc = "sub_record", ![p].resolved = token]
           ELSE IF Cardinality(Candidates(token)) # 1
             THEN call' = [call EXCEPT ![p].pc = "done",
                      ![p].res = Answer(call[p],
                                  Error("Unable to resolve booking from transaction memo"))]
           ELSE \E i \in Candidates(token) :
                  call' = [call EXCEPT ![p].pc = "sub_record", ![p].resolved = bookings[i].id]
    /\ UNCHANGED <<bookings, clients, payments, ledger, ncalls, visited, escrow_keypair, prepared, overlaps>>

\* _record_payment(..., PaymentStatus.PENDING, ...); a failing insert or commit is
\* caught by "except Exception"
SubRecord(p) ==
    /\ call[p].pc = "sub_record"
    /\ LET c == call[p]
           x == XdrOf(c.xdr)
       IN  \/ /\ InsertAccepted(c.resolved, c.tx_hash)
              /\ payments' = _record_payment(c.resolved, c.tx_hash, PAY_PENDING, x.amount,
                                             x.source, ESCROW_PUBLIC, x.memo)
              /\ call' = [call EXCEPT ![p].pc = "done",
                                      ![p].res = Answer(c, Success(Len(payments) + 1,
                                                                   c.tx_hash))]
           \/ /\ call' = [call EXCEPT ![p].pc = "done",
                             ![p].res = Answer(c, Error("Invalid or rejected transaction"))]
              /\ UNCHANGED payments
    /\ UNCHANGED <<bookings, clients, ledger, ncalls, visited, escrow_keypair, prepared, overlaps>>


(* ------------------------------------------------------------------ *)
(* release_payment and refund_payment                                  *)
(* ------------------------------------------------------------------ *)
\* What the two functions differ in: the status they look for and record, and the memo.
FinalStatus(op) == IF op = "release" THEN PAY_COMPLETED ELSE PAY_REFUNDED
MemoTag(op) == IF op = "release" THEN ReleaseTag ELSE RefundTag

\* Mutant of EscHeld: the request goes on without a held payment.
EscHeld_NoHeldTest(p, op, bid, to_account, amount) ==
    /\ Admit(p)
    /\ LET c == [Idle EXCEPT !.op = op, !.booking_id = bid, !.to_account = to_account,
                             !.amount = amount, !.rows0 = Len(payments),
                             !.ledger0 = Len(ledger)]
       IN  IF ~escrow_keypair
             THEN call' = [call EXCEPT ![p] =
                      [c EXCEPT !.pc = "done", !.res = Error("Escrow key not configured")]]
             ELSE call' = [call EXCEPT ![p] = [c EXCEPT !.pc = "esc_already"]]
    /\ UNCHANGED <<bookings, clients, payments, ledger, visited, escrow_keypair, prepared>>

\* The request arrives: the ESCROW_KEYPAIR test and the query for the held
\* (PENDING) payment
EscHeld(p, op, bid, to_account, amount) ==
    /\ Admit(p)
    /\ LET c == [Idle EXCEPT !.op = op, !.booking_id = bid, !.to_account = to_account,
                             !.amount = amount, !.rows0 = Len(payments),
                             !.ledger0 = Len(ledger)]
       IN  IF ~escrow_keypair
             THEN call' = [call EXCEPT ![p] =
                      [c EXCEPT !.pc = "done", !.res = Error("Escrow key not configured")]]
           ELSE IF RowsOf(bid, PAY_PENDING) = {}
             THEN call' = [call EXCEPT ![p] =
                      [c EXCEPT !.pc = "done",
                         !.res = Error("No held payment for booking or already released/refunded")]]
           ELSE \E k \in RowsOf(bid, PAY_PENDING) :
                  call' = [call EXCEPT ![p] = [c EXCEPT !.pc = "esc_already", !.held = k]]
    /\ UNCHANGED <<bookings, clients, payments, ledger, visited, escrow_keypair, prepared>>

\* Mutant of EscAlready: the query for an earlier release or refund is skipped.
EscAlready_Skipped(p) ==
    /\ call[p].pc = "esc_already"
    /\ call' = [call EXCEPT ![p].pc = "esc_submit"]
    /\ UNCHANGED <<bookings, clients, payments, ledger, ncalls, visited, escrow_keypair, prepared, overlaps>>

\* The query for an already COMPLETED (release) or REFUNDED (refund) payment
EscAlready(p) ==
    /\ call[p].pc = "esc_already"
    /\ LET found == RowsOf(call[p].booking_id, FinalStatus(call[p].op))
       IN  IF found # {}
             THEN \E k \in found :
                    call' = [call EXCEPT ![p].pc = "done", ![p].res = Exists(payments[k])]
             ELSE call' = [call EXCEPT ![p].pc = "esc_submit"]
    /\ UNCHANGED <<bookings, clients, payments, ledger, ncalls, visited, escrow_keypair, prepared, overlaps>>

\* Mutant of EscSubmit: a rejected transaction is recorded like an accepted one.
EscSubmit_RecordsRejected(p) ==
    /\ call[p].pc = "esc_submit"
    /\ LET c == call[p]
       IN  \/ /\ ledger' = Append(ledger,
                    LedgerTx(EscrowHash, ESCROW_PUBLIC, c.to_account,
                             _sanitize_amount(c.amount), Memo(MemoTag(c.op), c.booking_id),
                             c.booking_id))
              /\ call' = [call EXCEPT ![p].pc = "esc_record", ![p].tx_hash = EscrowHash,
                                      ![p].resp = "accepted"]
           \/ /\ call' = [call EXCEPT ![p].pc = "esc_record", ![p].tx_hash = EscrowHash,
                                      ![p].resp = "rejected"]
              /\ UNCHANGED ledger
    /\ UNCHANGED <<bookings, clients, payments, ncalls, visited, escrow_keypair, prepared, overlaps>>

\* load_account, build, sign with the escrow key, server.submit_transaction(tx)
EscSubmit(p) ==
    /\ call[p].pc = "esc_submit"
    /\ LET c == call[p]
       IN  \/ /\ ledger' = Append(ledger,
                    LedgerTx(EscrowHash, ESCROW_PUBLIC, c.to_account,
                             _sanitize_amount(c.amount), Memo(MemoTag(c.op), c.booking_id),
                             c.booking_id))
              /\ call' = [call EXCEPT ![p].pc = "esc_record", ![p].tx_hash = EscrowHash,
                                      ![p].resp = "accepted"]
           \/ \* BadRequestError, BadResponseError: db.rollback()
              /\ call' = [call EXCEPT ![p].pc = "done", ![p].resp = "rejected",
                                      ![p].res = Error(LedgerMessage)]
              /\ UNCHANGED ledger
           \/ \* any other exception of submit_transaction: "except Exception"
              /\ call' = [call EXCEPT ![p].pc = "done", ![p].resp = "failed",
                             ![p].res = Error("Database error after Stellar success")]
              /\ UNCHANGED ledger
           \/ \* load_account raises: nothing catches it
              /\ call' = [call EXCEPT ![p].pc = "done",
                                      ![p].res = [NoResult EXCEPT !.status = "raised"]]
              /\ UNCHANGED ledger
    /\ UNCHANGED <<bookings, clients, payments, ncalls, visited, escrow_keypair, prepared, overlaps>>

\* Mutant of EscRecord: a recorded release also marks the booking completed.
EscRecord_CompletesBooking(p) ==
    /\ call[p].pc = "esc_record"
    /\ LET c == call[p]
       IN  \/ /\ InsertAccepted(c.booking_id, c.tx_hash)
              /\ payments' = _record_payment(c.booking_id, c.tx_hash, FinalStatus(c.op),
                                c.amount, ESCROW_PUBLIC, c.to_account,
                                Memo(MemoTag(c.op), c.booking_id))
              /\ bookings' = [i \in 1..Len(bookings) |->
                                IF bookings[i].id = c.booking_id /\ c.op = "release"
                                  THEN [bookings[i] EXCEPT !.status = COMPLETED]
                                  ELSE bookings[i]]
              /\ call' = [call EXCEPT ![p].pc = "done",
                                      ![p].res = Success(Len(payments) + 1, c.tx_hash)]
           \/ /\ call' = [call EXCEPT ![p].pc = "done",
                             ![p].res = Error("Database error after Stellar success")]
              /\ UNCHANGED <<payments, bookings>>
    /\ UNCHANGED <<clients, ledger, ncalls, visited, escrow_keypair, prepared, overlaps>>

\* _record_payment(..., PaymentStatus.COMPLETED or REFUNDED, ...)
EscRecord(p) ==
    /\ call[p].pc = "esc_record"
    /\ LET c == call[p]
       IN  \/ /\ InsertAccepted(c.booking_id, c.tx_hash)
              /\ payments' = _record_payment(c.booking_id, c.tx_hash, FinalStatus(c.op),
                                c.amount, ESCROW_PUBLIC, c.to_account,
                                Memo(MemoTag(c.op), c.booking_id))
              /\ call' = [call EXCEPT ![p].pc = "done",
                                      ![p].res = Success(Len(payments) + 1, c.tx_hash)]
           \/ /\ call' = [call EXCEPT ![p].pc = "done",
                             ![p].res = Error("Database error after Stellar success")]
              /\ UNCHANGED payments
    /\ UNCHANGED <<bookings, clients, ledger, ncalls, visited, escrow_keypair, prepared, overlaps>>

(* ------------------------------------------------------------------ *)
(* POST /payments/prepare                                              *)
(* ------------------------------------------------------------------ *)
\* uuid.UUID(s) as a value: the hex digits, whatever the hyphens
UuidValue(s) == SelectSeq(s, NotDash)

\* IdA written without hyphens, which uuid.UUID() accepts as well
IdAPlain == UuidValue(IdA)

\* db.query(Booking).filter(Booking.id == b_id), b_id the UUID of the string s
BookingByUuid(s) == {i \in 1..Len(bookings) : UuidValue(bookings[i].id) = UuidValue(s)}

\* The unsigned envelope: one payment of the quantized amount from client_public to
\* the escrow account, with the memo "hold-" + booking_id cut to the memo limit.
prepare_payment(booking_id, amount, client_public) ==
    [NoResult EXCEPT !.code = 200, !.status = "prepared",
        !.unsigned_xdr = [Envelope(0, client_public, ESCROW_PUBLIC, _sanitize_amount(amount),
                                   Memo(HoldTag, booking_id), 1) EXCEPT !.signatures = 0]]

\* require_client and the email-verification gate of the two payment endpoints
CallerGate(u, verified, gate, what) ==
    IF RoleOf(u) # "client" THEN Http(403, "Access denied")
    ELSE IF gate /\ ~verified THEN Http(403, "Email verification required before " \o what)
    ELSE [NoResult EXCEPT !.code = 200]

\* The endpoint: the gate, the booking lookup, the ownership test, prepare_payment
PrepareDecision(u, verified, gate, bid, amount, client_public) ==
    IF CallerGate(u, verified, gate, "preparing payments").code # 200
      THEN CallerGate(u, verified, gate, "preparing payments")
    ELSE IF ~IsUuid(bid) \/ BookingByUuid(bid) = {}
      THEN Http(404, "Booking not found")
    ELSE IF \E i \in BookingByUuid(bid) : bookings[i].client_id # u
      THEN Http(403, "You are not authorized to prepare payment for this booking")
    ELSE prepare_payment(bid, amount, client_public)

\* Mutant of prepare: the envelope it built is put on the ledger.
prepare_Submits(p, u, verified, gate, bid, amount, client_public) ==
    /\ Admit(p)
    /\ call' = [call EXCEPT ![p] =
          [Idle EXCEPT !.op = "prepare", !.pc = "done", !.user = u, !.verified = verified,
                       !.gate = gate, !.booking_id = bid, !.amount = amount,
                       !.client_public = client_public, !.rows0 = Len(payments),
                       !.ledger0 = Len(ledger),
                       !.res = PrepareDecision(u, verified, gate, bid, amount, client_public)]]
    /\ ledger' = IF PrepareDecision(u, verified, gate, bid, amount, client_public).code = 200
                   THEN Append(ledger, LedgerTx(EscrowHash, client_public, ESCROW_PUBLIC,
                                               _sanitize_amount(amount), Memo(HoldTag, bid), bid))
                   ELSE ledger
    /\ prepared' = IF PrepareDecision(u, verified, gate, bid, amount, client_public).code = 200
                     THEN prepared \cup {bookings[i].id : i \in BookingByUuid(bid)}
                     ELSE prepared
    /\ UNCHANGED <<bookings, clients, payments, visited, escrow_keypair>>

prepare(p, u, verified, gate, bid, amount, client_public) ==
    /\ Admit(p)
    /\ call' = [call EXCEPT ![p] =
          [Idle EXCEPT !.op = "prepare", !.pc = "done", !.user = u, !.verified = verified,
                       !.gate = gate, !.booking_id = bid, !.amount = amount,
                       !.client_public = client_public, !.rows0 = Len(payments),
                       !.ledger0 = Len(ledger),
                       !.res = PrepareDecision(u, verified, gate, bid, amount, client_public)]]
    /\ prepared' = IF PrepareDecision(u, verified, gate, bid, amount, client_public).code = 200
                     THEN prepared \cup {bookings[i].id : i \in BookingByUuid(bid)}
                     ELSE prepared
    /\ UNCHANGED <<bookings, clients, payments, ledger, visited, escrow_keypair>>

(* ------------------------------------------------------------------ *)
(* POST /payments/submit                                               *)
(* ------------------------------------------------------------------ *)
\* The rows the endpoint takes the envelope's memo to name: the booking with the id
\* the token spells, or the one booking whose id starts with the token.
NamedBooking(x) ==
    LET token == RemoveHold(x.memo)
    IN  IF IsUuid(token) THEN BookingByUuid(token) ELSE Candidates(token)

\* What the endpoint decides before it calls submit_signed_payment: the gate, the
\* local parse of the envelope, the resolution of the memo, the booking lookup and the
\* ownership test; code 200 stands for "call the service".
SubmitDecision(u, verified, gate, x) ==
    IF CallerGate(u, verified, gate, "submitting payments").code # 200
      THEN CallerGate(u, verified, gate, "submitting payments")
    ELSE IF ~x.parses
      THEN Http(400, "Invalid signed transaction XDR")
    ELSE IF ~IsUuid(RemoveHold(x.memo)) /\ Cardinality(Candidates(RemoveHold(x.memo))) # 1
      THEN Http(400, "Unable to resolve booking from transaction memo")
    ELSE IF NamedBooking(x) = {}
      THEN Http(404, "Booking not found")
    ELSE IF \E i \in NamedBooking(x) : bookings[i].client_id # u
      THEN Http(403, "You are not authorized to submit payment for this booking")
    ELSE [NoResult EXCEPT !.code = 200]

\* Mutant of submit: the ownership test is left out.
submit_AnyClient(p, u, verified, gate, h) ==
    LET d == SubmitDecision(u, verified, gate, XdrOf(h))
        c == [Idle EXCEPT !.op = "post_submit", !.user = u, !.verified = verified,
                          !.gate = gate, !.xdr = h, !.rows0 = Len(payments),
                          !.ledger0 = Len(ledger)]
    IN  /\ Admit(p)
        /\ IF d.code \notin {200, 403} \/ RoleOf(u) # "client" \/ (gate /\ ~verified)
             THEN /\ call' = [call EXCEPT ![p] = [c EXCEPT !.pc = "done", !.res = d]]
                  /\ UNCHANGED ledger
             ELSE SubSend(p, c, h)
        /\ UNCHANGED <<bookings, clients, payments, visited, escrow_keypair, prepared>>

\* The request of user u with the envelope of hash h arrives: the endpoint's tests,
\* then submit_signed_payment up to its ledger call.
submit(p, u, verified, gate, h) ==
    LET d == SubmitDecision(u, verified, gate, XdrOf(h))
        c == [Idle EXCEPT !.op = "post_submit", !.user = u, !.verified = verified,
                          !.gate = gate, !.xdr = h, !.rows0 = Len(payments),
                          !.ledger0 = Len(ledger)]
    IN  /\ Admit(p)
        /\ IF d.code # 200
             THEN /\ call' = [call EXCEPT ![p] = [c EXCEPT !.pc = "done", !.res = d]]
                  /\ UNCHANGED ledger
             ELSE SubSend(p, c, h)
        /\ UNCHANGED <<bookings, clients, payments, visited, escrow_keypair, prepared>>

(* ------------------------------------------------------------------ *)
(* Specifications                                                      *)
(* ------------------------------------------------------------------ *)
\* Empty tables and idle workers; n requests may start while another is in flight.
Start(n) ==
    /\ bookings = <<>>
    /\ clients = {}
    /\ payments = <<>>
    /\ ledger = <<>>
    /\ call = [p \in Procs |-> Idle]
    /\ ncalls = 0
    /\ visited = <<>>
    /\ escrow_keypair \in BOOLEAN
    /\ prepared = {}
    /\ overlaps = n

\* Requests are handled concurrently by the workers.
Init == Start(MaxOverlap)

\* One request at a time: a request starts only when no other is in flight.
InitSerial == Start(0)

\* The response is sent and the worker is free again.
Return(p) ==
    /\ call[p].pc = "done"
    /\ call' = [call EXCEPT ![p] = Idle]
    /\ UNCHANGED <<bookings, clients, payments, ledger, ncalls, visited, escrow_keypair, prepared, overlaps>>

update_booking_status(p, users, ids) ==
    \/ \E u \in users, bid \in ids, payload \in StatusPayloads : UbsLoad(p, u, bid, payload)
    \/ UbsApply(p)

submit_signed_payment(p) ==
    \/ \E x \in XdrPool : SubSubmit(p, x.hash)
    \/ SubResolve(p)
    \/ SubRecord(p)

\* The request bodies of POST /payments/release and /payments/refund.
EscrowRequests(ids, amounts) == [booking_id : ids, to_account : Wallets, amount : amounts]

EscrowCall(p, op, reqs) ==
    \/ \E r \in reqs : EscHeld(p, op, r.booking_id, r.to_account, r.amount)
    \/ call[p].op = op /\ (EscAlready(p) \/ EscSubmit(p) \/ EscRecord(p))

release_payment(p, reqs) == EscrowCall(p, "release", reqs)

refund_payment(p, reqs) == EscrowCall(p, "refund", reqs)

Create(ids) == \E u \in Users, a \in Users, bid \in ids : create_booking(u, a, bid)

Next ==
    \/ Create(BookingIdPool)
    \/ \E p \in Procs :
          \/ update_booking_status(p, Users, BookingIdPool)
          \/ submit_signed_payment(p)
          \/ release_payment(p, EscrowRequests(BookingIdPool, Amounts))
          \/ refund_payment(p, EscrowRequests(BookingIdPool, Amounts))
          \/ Return(p)

\* The booking endpoints alone: every booking gets the id IdA, the callers are
\* users and name a booking id of ids.
NextBookings(users, ids) ==
    \/ Create({IdA})
    \/ \E p \in Procs : update_booking_status(p, users, ids) \/ Return(p)

\* The payment saga alone, on bookings with an id of ids and requests for these
\* ids and amounts.
NextPayments(ids, amounts) ==
    \/ Create(ids)
    \/ \E p \in Procs :
          \/ submit_signed_payment(p)
          \/ release_payment(p, EscrowRequests(ids, amounts))
          \/ refund_payment(p, EscrowRequests(ids, amounts))
          \/ Return(p)

Spec == Init /\ [][Next]_vars
SpecSerial == InitSerial /\ [][Next]_vars
\* One request at a time: every caller, an id a booking has and one no booking has.
SpecBookingsSerial == InitSerial /\ [][NextBookings(Users, {IdA, IdC})]_vars
\* The prepare endpoint alone: callers of users ask for a booking id of ids and an
\* amount of amounts.
NextPrepare(users, ids, amounts) ==
    \/ Create({IdA})
    \/ \E p \in Procs :
          \/ \E u \in users, verified \in BOOLEAN, gate \in BOOLEAN,
                bid \in ids, a \in amounts :
                prepare(p, u, verified, gate, bid, a, "GCLIENT")
          \/ Return(p)

\* A bookings table that holds the ids of S, each booked by c1 with a1.
RECURSIVE SeedBookings(_)
SeedBookings(S) ==
    IF S = {} THEN <<>>
    ELSE LET bid == CHOOSE b \in S : TRUE
         IN  <<[id |-> bid, client_id |-> "c1", artisan_id |-> "a1", status |-> PENDING]>>
                \o SeedBookings(S \ {bid})

\* Any bookings table over the ids of the pool, and no payment yet.
InitMemo ==
    /\ \E S \in SUBSET BookingIdPool :
          /\ bookings = SeedBookings(S)
          /\ visited = [i \in 1..Cardinality(S) |-> {PENDING}]
    /\ clients = {"c1"}
    /\ payments = <<>>
    /\ ledger = <<>>
    /\ call = [p \in Procs |-> Idle]
    /\ ncalls = 0
    /\ escrow_keypair \in BOOLEAN
    /\ prepared = {}
    /\ overlaps = 0

\* Signed envelopes are submitted, one at a time.
NextMemo == \E p \in Procs : submit_signed_payment(p) \/ Return(p)

SpecMemo == InitMemo /\ [][NextMemo]_vars

\* The two client endpoints of the saga: callers of users prepare a payment for a
\* booking id of ids and post signed envelopes.
NextEndpoints(users, ids, amounts) ==
    \/ Create({IdA})
    \/ \E p \in Procs :
          \/ \E u \in users, verified \in BOOLEAN, gate \in BOOLEAN,
                bid \in ids, a \in amounts :
                prepare(p, u, verified, gate, bid, a, "GCLIENT")
          \/ \E u \in users, verified \in BOOLEAN, gate \in BOOLEAN, x \in XdrPool :
                submit(p, u, verified, gate, x.hash)
          \/ SubResolve(p)
          \/ SubRecord(p)
          \/ Return(p)

\* One request at a time to the two client endpoints.
SpecEndpoints == InitSerial /\ [][NextEndpoints({"c1", "c2", "a1"}, {IdA, IdC}, {35})]_vars

\* Status updates and the payment saga on one booking: the client, the artisan and
\* the admin update the status, c1 prepares a payment, and the escrow requests name
\* the booking.
NextSaga ==
    \/ Create({IdA})
    \/ \E p \in Procs :
          \/ update_booking_status(p, {"c1", "a1", "adm"}, {IdA})
          \/ \E verified \in BOOLEAN, gate \in BOOLEAN :
                prepare(p, "c1", verified, gate, IdA, 20, "GCLIENT")
          \/ submit_signed_payment(p)
          \/ release_payment(p, EscrowRequests({IdA}, {20}))
          \/ refund_payment(p, EscrowRequests({IdA}, {20}))
          \/ Return(p)

\* One request at a time to the booking and the payment operations together.
SpecSagaSerial == InitSerial /\ [][NextSaga]_vars

\* Two bookings of different parties, each in any status: IdA of c1 with a1, IdC of
\* c2 with a3.
InitTwoBookings ==
    /\ \E sa \in BookingStatus, sc \in BookingStatus :
          /\ bookings = <<[id |-> IdA, client_id |-> "c1", artisan_id |-> "a1", status |-> sa],
                          [id |-> IdC, client_id |-> "c2", artisan_id |-> "a3", status |-> sc]>>
          /\ visited = <<{sa}, {sc}>>
    /\ clients = {"c1", "c2"}
    /\ payments = <<>>
    /\ ledger = <<>>
    /\ call = [p \in Procs |-> Idle]
    /\ ncalls = 0
    /\ escrow_keypair \in BOOLEAN
    /\ prepared = {}
    /\ overlaps = 0

\* The parties of the two bookings and an artisan without a profile ask for status
\* changes of either booking.
NextTwoBookings ==
    \E p \in Procs :
       \/ update_booking_status(p, {"c1", "c2", "a1", "a2", "a3"}, {IdA, IdC})
       \/ Return(p)

SpecTwoBookings == InitTwoBookings /\ [][NextTwoBookings]_vars

\* Empty tables, and room for PathCalls requests, one at a time.
InitPath ==
    /\ bookings = <<>>
    /\ clients = {}
    /\ payments = <<>>
    /\ ledger = <<>>
    /\ call = [p \in Procs |-> Idle]
    /\ ncalls = MaxCalls - PathCalls
    /\ visited = <<>>
    /\ escrow_keypair \in BOOLEAN
    /\ prepared = {}
    /\ overlaps = 0

\* The operations of the end-to-end scenario on the booking c1 makes with a1: status
\* updates by the two parties, prepare and submit by c1, and release to the artisan.
NextPath ==
    \/ create_booking("c1", "a1", IdA)
    \/ \E p \in Procs :
          \/ update_booking_status(p, {"c1", "a1"}, {IdA})
          \/ \E verified \in BOOLEAN, gate \in BOOLEAN :
                prepare(p, "c1", verified, gate, IdA, 20, "GCLIENT")
          \/ \E verified \in BOOLEAN, gate \in BOOLEAN, x \in XdrPool :
                submit(p, "c1", verified, gate, x.hash)
          \/ SubResolve(p)
          \/ SubRecord(p)
          \/ release_payment(p, EscrowRequests({IdA}, {20}))
          \/ Return(p)

SpecPath == InitPath /\ [][NextPath]_vars

\* The three operations that build a transaction: c1 prepares a payment, naming the
\* booking with or without hyphens, and the escrow requests name a booking id of ids.
NextBuilders(ids) ==
    \/ Create(ids)
    \/ \E p \in Procs :
          \/ \E verified \in BOOLEAN, gate \in BOOLEAN, bid \in ids \cup {IdAPlain} :
                prepare(p, "c1", verified, gate, bid, 20, "GCLIENT")
          \/ submit_signed_payment(p)
          \/ release_payment(p, EscrowRequests(ids, {20}))
          \/ refund_payment(p, EscrowRequests(ids, {20}))
          \/ Return(p)

SpecBuilders == InitSerial /\ [][NextBuilders({IdA, IdC})]_vars

\* One prepare request at a time, for every amount up to MaxAmount.
SpecPrepare == InitSerial /\ [][NextPrepare({"c1", "a1"}, {IdA, IdC}, 1..MaxAmount)]_vars
\* Concurrent requests of every caller, the admin included.
SpecBookings == Init /\ [][NextBookings(Users, {IdA})]_vars
\* Concurrent requests with no admin among the callers.
SpecBookingsParties == Init /\ [][NextBookings(Users \ {"adm"}, {IdA, IdC})]_vars
\* One payment request at a time.
SpecPaymentsSerial == InitSerial /\ [][NextPayments({IdA, IdC}, Amounts)]_vars
\* Concurrent payment requests on one booking id, for the amount that needs rounding.
SpecPayments == Init /\ [][NextPayments({IdA}, {35})]_vars

(* ------------------------------------------------------------------ *)
(* The booking state machine: claims C1, C2, C3                        *)
(* ------------------------------------------------------------------ *)
StateMachineEdges ==
    { <<PENDING, CONFIRMED>>, <<CONFIRMED, IN_PROGRESS>>, <<IN_PROGRESS, COMPLETED>>,
      <<PENDING, CANCELLED>>, <<CONFIRMED, CANCELLED>>, <<IN_PROGRESS, CANCELLED>> }

\* Worker p decides a status request in this step and answers it.
Decides(p) == call[p].pc = "ubs_apply" /\ call'[p].pc = "done"

\* In this step worker p, serving a non-admin user, decides a request on booking row i.
PartyDecides(p, i) ==
    /\ Decides(p)
    /\ RoleOf(call[p].user) # "admin"
    /\ bookings[i].id = call[p].booking_id

IsRequester(p, i) == call[p].user = bookings[i].client_id
IsProvider(p, i) == call[p].user = bookings[i].artisan_id

Accepted(p, i) ==
    /\ call'[p].res.code = 200
    /\ bookings' = [bookings EXCEPT ![i].status = call[p].req]

Denied(p) == call'[p].res.code # 200 /\ bookings' = bookings

Forbidden(p) == call'[p].res.code = 403 /\ bookings' = bookings

C2_RoleGates ==
    [][ \A p \in Procs : \A i \in 1..Len(bookings) :
           PartyDecides(p, i) =>
              LET edge == <<bookings[i].status, call[p].req>>
              IN  /\ edge \in {<<PENDING, CONFIRMED>>, <<CONFIRMED, IN_PROGRESS>>} =>
                       /\ IsProvider(p, i) => Accepted(p, i)
                       /\ IsRequester(p, i) => Forbidden(p)
                       /\ ~IsProvider(p, i) => Denied(p)
                  /\ edge = <<IN_PROGRESS, COMPLETED>> =>
                       /\ IsRequester(p, i) => Accepted(p, i)
                       /\ IsProvider(p, i) => Forbidden(p)
                       /\ ~IsRequester(p, i) => Denied(p)
      ]_vars

\* The booking's client asked to confirm its pending booking and got 403.
C2_Witness ==
    \E p \in Procs : \E i \in 1..Len(bookings) :
       /\ call[p].pc = "done" /\ call[p].op = "status"
       /\ call[p].user = bookings[i].client_id
       /\ call[p].req = CONFIRMED /\ call[p].cur = PENDING
       /\ call[p].res.code = 403
       /\ bookings[i].status = PENDING

\* C3: a cancellation by the booking's client is accepted exactly when the booking
\* is pending, one by its artisan exactly when it is pending, confirmed or
\* in_progress; otherwise (so from completed and cancelled) it is denied and the
\* status stays.
C3_Cancellation ==
    [][ \A p \in Procs : \A i \in 1..Len(bookings) :
           (PartyDecides(p, i) /\ call[p].req = CANCELLED) =>
              /\ IsRequester(p, i) =>
                    IF bookings[i].status = PENDING THEN Accepted(p, i) ELSE Denied(p)
              /\ IsProvider(p, i) =>
                    IF bookings[i].status \in {PENDING, CONFIRMED, IN_PROGRESS}
                      THEN Accepted(p, i) ELSE Denied(p)
      ]_vars

\* The artisan cancelled a booking that was in progress.
C3_Witness ==
    \E p \in Procs : \E i \in 1..Len(bookings) :
       /\ call[p].pc = "done" /\ call[p].op = "status"
       /\ call[p].user = bookings[i].artisan_id
       /\ call[p].req = CANCELLED /\ call[p].cur = IN_PROGRESS
       /\ call[p].res.code = 200
       /\ bookings[i].status = CANCELLED

(* ------------------------------------------------------------------ *)
(* Terminal statuses and concurrent status requests: claims C9, C10    *)
(* ------------------------------------------------------------------ *)
Terminal == {COMPLETED, CANCELLED}

C10_StoredStatusFollowsEdges ==
    [][ \A i \in 1..Len(bookings) :
           bookings'[i].status # bookings[i].status =>
              /\ <<bookings[i].status, bookings'[i].status>> \in StateMachineEdges
              /\ \A p \in Procs :
                    (Decides(p) /\ call[p].booking_id = bookings[i].id
                       /\ IsRequester(p, i) /\ call[p].req = CANCELLED)
                      => bookings[i].status = PENDING
      ]_vars

(* ------------------------------------------------------------------ *)
(* The escrow saga: claims C4 to C8                                    *)
(* ------------------------------------------------------------------ *)
EscrowOps == {"release", "refund"}

\* The ledger entries that pay out of escrow for a booking with a given memo tag.
EscrowTxs(tag, bid) ==
    {k \in 1..Len(ledger) :
        /\ ledger[k].source = ESCROW_PUBLIC
        /\ ledger[k].booking_id = bid
        /\ ledger[k].memo = Memo(tag, bid)}

\* C4: no booking has both a completed and a refunded payment.
C4_ReleaseRefundExclusive ==
    \A bid \in BookingIdPool :
       RowsOf(bid, PAY_COMPLETED) = {} \/ RowsOf(bid, PAY_REFUNDED) = {}

\* C5: however often submit is called, a booking has at most one held payment.
C5_OneHeldPayment ==
    \A bid \in BookingIdPool : Cardinality(RowsOf(bid, PAY_PENDING)) <= 1

\* The payments of the request's booking with the request's final status that
\* existed when the request arrived.
Earlier(c) ==
    {k \in 1..c.rows0 :
        payments[k].booking_id = c.booking_id /\ payments[k].status = FinalStatus(c.op)}

\* C6: a release (refund) that arrives after a release (refund) of the booking has
\* been recorded answers "exists" with that one record's id and hash, gets nothing
\* accepted by the ledger and adds no payment row.
C6_SecondCallReturnsOriginal ==
    \A p \in Procs :
       LET c == call[p]
       IN  (c.pc = "done" /\ c.op \in EscrowOps /\ Earlier(c) # {}) =>
              /\ c.res.status = "exists"
              /\ Earlier(c) = {c.res.payment_id}
              /\ c.res.transaction_hash = payments[c.res.payment_id].transaction_hash
              /\ c.tx_hash = 0
              /\ Len(payments) = c.rows0
              /\ Len(ledger) = c.ledger0

\* A second release was answered with the record of the first.
C6_Witness ==
    \E p \in Procs :
       /\ call[p].pc = "done" /\ call[p].op = "release"
       /\ call[p].res.status = "exists"
       /\ call[p].res.payment_id \in RowsOf(call[p].booking_id, PAY_COMPLETED)
       /\ Cardinality(EscrowTxs(ReleaseTag, call[p].booking_id)) = 1

\* C7: a booking has at most one escrow-to-artisan transaction on the ledger and at
\* most one completed payment, also when releases run concurrently.
C7_OneReleasePerBooking ==
    \A bid \in BookingIdPool :
       /\ Cardinality(EscrowTxs(ReleaseTag, bid)) <= 1
       /\ Cardinality(RowsOf(bid, PAY_COMPLETED)) <= 1

\* C8: a successful release (refund) turns the held row into the completed
\* (refunded) one: it carries the new hash, no row is added, none stays pending.
C8_HeldRowMutatedInPlace ==
    \A p \in Procs :
       LET c == call[p]
       IN  (c.pc = "done" /\ c.op \in EscrowOps /\ c.res.status = "success") =>
              /\ Len(payments) = c.rows0
              /\ payments[c.held].status = FinalStatus(c.op)
              /\ payments[c.held].transaction_hash = c.res.transaction_hash
              /\ RowsOf(c.booking_id, PAY_PENDING) = {}

(* ------------------------------------------------------------------ *)
(* Failures of the saga: claims C11, C14, C15, C16                     *)
(* ------------------------------------------------------------------ *)
SagaOps == {"submit", "release", "refund"}

\* The ledger accepted the request's transaction and the insert of its payment failed.
WriteFailed(c) ==
    /\ c.pc = "done" /\ c.op \in SagaOps
    /\ c.resp = "accepted" /\ c.res.status = "error"
    /\ c.op = "submit" => c.resolved # NoId

\* The ledger rejected the request's transaction, or its envelope was invalid.
PlainFailure(c) ==
    /\ c.pc = "done" /\ c.op \in SagaOps /\ c.res.status = "error"
    /\ \/ c.resp = "rejected"
       \/ c.op = "submit" /\ c.resp = ""

\* C14: a release or refund that arrives when its booking has no pending payment is
\* answered with an error in that step, which changes neither the ledger nor the
\* payments, also while a submit for the booking is in flight; and a release or
\* refund that puts a transaction on the ledger holds a pending payment of its booking.
C14_HeldPaymentRequired ==
    [][ \A p \in Procs :
           /\ (call[p].pc = "idle" /\ call'[p].op \in EscrowOps
                  /\ RowsOf(call'[p].booking_id, PAY_PENDING) = {}) =>
                 /\ call'[p].pc = "done"
                 /\ call'[p].res.status = "error"
                 /\ ledger' = ledger
                 /\ payments' = payments
           /\ (call[p].op \in EscrowOps /\ call'[p].op \in EscrowOps
                  /\ (call'[p].tx_hash # call[p].tx_hash \/ call'[p].res.status = "success")) =>
                 call[p].held \in RowsOf(call[p].booking_id, PAY_PENDING)
      ]_vars

\* A release was refused for want of a held payment while a submit that resolved to
\* the same booking had its transaction on the ledger and its row not yet written.
C14_Witness ==
    \E p, q \in Procs :
       /\ call[p].pc = "done" /\ call[p].op = "release"
       /\ call[p].res = Error("No held payment for booking or already released/refunded")
       /\ call[q].pc = "sub_record" /\ call[q].resolved = call[p].booking_id
       /\ call[q].ledger0 < call[p].ledger0

\* C15: a submit of an envelope that has not exactly one operation, or whose operation
\* does not pay the escrow account, is answered "Transaction structure invalid"; the
\* transaction is not sent to the ledger and no payment row is written.
C15_StructureChecked ==
    \A p \in Procs :
       LET c == call[p]
           x == XdrOf(c.xdr)
       IN  (c.op = "submit" /\ c.pc # "idle" /\ x.parses
               /\ (x.ops # 1 \/ x.destination # ESCROW_PUBLIC)) =>
              /\ c.pc = "done"
              /\ c.res = Error("Transaction structure invalid")
              /\ c.resp = "" /\ c.tx_hash = 0
              /\ x.hash \notin LedgerHashes \cup PaymentHashes
              /\ Len(ledger) = c.ledger0 /\ Len(payments) = c.rows0

\* An envelope that pays another account than escrow was turned down.
C15_Witness ==
    \E p \in Procs :
       /\ call[p].pc = "done" /\ call[p].op = "submit"
       /\ XdrOf(call[p].xdr).ops = 1
       /\ XdrOf(call[p].xdr).destination = "GARTISAN"
       /\ call[p].res = Error("Transaction structure invalid")
       /\ Len(ledger) > 0

\* C16: when the ledger rejects the transaction of a submit, release or refund, the
\* request ends in that step with an error that carries the ledger's message, the
\* step leaves the payments and the ledger as they were, and the payments are those
\* the request found when it arrived.
C16_RejectionLeavesPayments ==
    [][ \A p \in Procs :
           (call'[p].resp = "rejected" /\ call[p].pc # "done") =>
              /\ call'[p].op \in SagaOps
              /\ call'[p].pc = "done"
              /\ call'[p].res = Error(LedgerMessage)
              /\ payments' = payments
              /\ ledger' = ledger
              /\ Len(payments') = call'[p].rows0
      ]_vars

\* A release of a held payment was rejected by the ledger.
C16_Witness ==
    \E p \in Procs :
       /\ call[p].pc = "done" /\ call[p].op = "release" /\ call[p].resp = "rejected"
       /\ call[p].held \in RowsOf(call[p].booking_id, PAY_PENDING)
       /\ RowsOf(call[p].booking_id, PAY_COMPLETED) = {}

\* C11: the answer of an operation whose transaction the ledger accepted and whose
\* payment row could not be written differs from the answer the same operation gives
\* when the ledger rejects the transaction or the envelope is invalid.
C11_SettledUnrecordedDistinct ==
    \A p, q \in Procs :
       (WriteFailed(call[p]) /\ PlainFailure(call[q]) /\ call[p].op = call[q].op)
          => call[p].res # call[q].res

(* ------------------------------------------------------------------ *)
(* Quantization and the builder: claims C12, C17                       *)
(* ------------------------------------------------------------------ *)
\* Worker p has answered a prepare request with an unsigned envelope.
HasPrepared(p) ==
    call[p].pc = "done" /\ call[p].op = "prepare" /\ call[p].res.status = "prepared"

\* C12: the amount q that is put into the transaction for a requested amount a > 0 is
\* a multiple of the ledger's precision with q <= a and a - q less than one unit of
\* that precision, and quantizing q again gives q.
C12_QuantizeTruncates ==
    \A p \in Procs :
       HasPrepared(p) =>
          LET a == call[p].amount
              q == call[p].res.unsigned_xdr.amount
          IN  /\ q = _sanitize_amount(a)
              /\ q % LedgerPrecision = 0
              /\ q <= a
              /\ a - q < LedgerPrecision
              /\ _sanitize_amount(q) = q

\* An amount seven units above a multiple of the precision was cut down to it.
C12_Witness ==
    \E p \in Procs :
       /\ HasPrepared(p)
       /\ call[p].amount = LedgerPrecision + 7
       /\ call[p].res.unsigned_xdr.amount = LedgerPrecision

\* C17: a prepare request is answered in one step that leaves the bookings, the
\* clients, the payments and the ledger as they were; what it returns is an envelope
\* without a signature that holds one payment from the caller's account to the escrow
\* account.
C17_PrepareOnlyBuilds ==
    [][ \A p \in Procs :
           (call[p].pc = "idle" /\ call'[p].op = "prepare") =>
              /\ call'[p].pc = "done"
              /\ bookings' = bookings /\ clients' = clients
              /\ payments' = payments /\ ledger' = ledger
              /\ call'[p].res.status = "prepared" =>
                    LET x == call'[p].res.unsigned_xdr
                    IN  /\ x.signatures = 0
                        /\ x.ops = 1
                        /\ x.source = call'[p].client_public
                        /\ x.destination = ESCROW_PUBLIC
      ]_vars

\* The client of the booking IdA was given the unsigned envelope for it.
C17_Witness ==
    \E p \in Procs :
       /\ HasPrepared(p)
       /\ call[p].user = "c1" /\ call[p].booking_id = IdA
       /\ call[p].res.unsigned_xdr.memo = Memo(HoldTag, IdA)
       /\ call[p].res.unsigned_xdr.signatures = 0
       /\ ledger = <<>> /\ payments = <<>>

(* ------------------------------------------------------------------ *)
(* Who may prepare and submit: claim C18                               *)
(* ------------------------------------------------------------------ *)
EndpointOps == {"prepare", "post_submit"}

\* The booking rows the request c refers to: by its booking_id, or by the memo of its
\* envelope when that names exactly one booking.
Referenced(c) ==
    IF c.op = "prepare"
      THEN IF IsUuid(c.booking_id) THEN BookingByUuid(c.booking_id) ELSE {}
    ELSE IF XdrOf(c.xdr).parses /\ Cardinality(NamedBooking(XdrOf(c.xdr))) = 1
      THEN NamedBooking(XdrOf(c.xdr))
    ELSE {}

\* The caller of c is a client, verified if verification is required, and the client
\* of the booking c refers to.
OwnerCalls(c) ==
    /\ RoleOf(c.user) = "client"
    /\ c.gate => c.verified
    /\ \E i \in Referenced(c) : bookings[i].client_id = c.user

C21_StrangersForbidden ==
    [][ \A p \in Procs : \A i \in 1..Len(bookings) :
           (PartyDecides(p, i) /\ ~IsRequester(p, i) /\ ~IsProvider(p, i)) => Forbidden(p)
      ]_vars

\* The artisan of another booking asked to cancel the booking IdA and was refused.
C21_Witness ==
    \E p \in Procs :
       /\ call[p].op = "status" /\ call[p].pc = "done"
       /\ call[p].user = "a3" /\ call[p].booking_id = IdA /\ call[p].req = CANCELLED
       /\ call[p].res.code = 403

(* ------------------------------------------------------------------ *)
(* Requests that are no edge: claim C22                                *)
(* ------------------------------------------------------------------ *)
\* C22: a request of the booking's client or artisan for a status that is no edge
\* away from the stored one is answered 400, the invalid-transition kind, and leaves
\* every booking as it was.
C22_NonEdgeIsInvalidTransition ==
    [][ \A p \in Procs : \A i \in 1..Len(bookings) :
           ( /\ PartyDecides(p, i)
             /\ IsRequester(p, i) \/ IsProvider(p, i)
             /\ IsStatus(call[p].req)
             /\ <<bookings[i].status, call[p].req>> \notin StateMachineEdges )
           => (call'[p].res.code = 400 /\ bookings' = bookings)
      ]_vars

(* ------------------------------------------------------------------ *)
(* Marking a booking completed: claim C23                              *)
(* ------------------------------------------------------------------ *)
\* In this step worker p decides a "completed" request of a party of booking row i,
\* which is stored in status s.
CompleteRequested(p, i, s) ==
    /\ PartyDecides(p, i)
    /\ IsRequester(p, i) \/ IsProvider(p, i)
    /\ call[p].req = COMPLETED
    /\ bookings[i].status = s

PathDone(p, i) ==
    /\ bookings[i].status = COMPLETED
    /\ visited[i] = {PENDING, CONFIRMED, IN_PROGRESS, COMPLETED}
    /\ bookings[i].id \in prepared
    /\ call[p].op = "release" /\ call[p].pc = "done"
    /\ call[p].booking_id = bookings[i].id
    /\ call[p].res.status = "success"

\* The payment row k is the hold submit recorded for the booking bid.
HeldBySubmit(k, bid) ==
    /\ payments[k].booking_id = bid
    /\ payments[k].status = PAY_PENDING
    /\ payments[k].to_account = ESCROW_PUBLIC
    /\ payments[k].memo = Memo(HoldTag, bid)
    /\ payments[k].transaction_hash \in LedgerHashes

\* The payment row k is a release of the booking bid with the hash h, a transaction
\* the ledger holds as a payment out of the escrow account.
ReleasedWith(k, bid, h) ==
    /\ payments[k].booking_id = bid
    /\ payments[k].status = PAY_COMPLETED
    /\ payments[k].transaction_hash = h
    /\ \E j \in 1..Len(ledger) :
          /\ ledger[j].hash = h
          /\ ledger[j].source = ESCROW_PUBLIC
          /\ ledger[j].memo = Memo(ReleaseTag, bid)

\* C24: where the scenario has been run to its end (booking created, confirmed,
\* payment prepared and submitted, work started, booking completed, release answered
\* "success"), the booking is Completed, the payments hold the hold that submit
\* recorded, and they hold a Completed payment with the hash the release returned.
C24_HappyPathOutcome ==
    \A p \in Procs : \A i \in 1..Len(bookings) :
       PathDone(p, i) =>
          /\ \E k \in 1..Len(payments) : HeldBySubmit(k, bookings[i].id)
          /\ \E k \in 1..Len(payments) :
                ReleasedWith(k, bookings[i].id, call[p].res.transaction_hash)

\* The scenario has been run to its end in PathCalls requests, each of them accepted:
\* three status updates, prepare, submit and release.
C24_Witness ==
    /\ \E p \in Procs : \E i \in 1..Len(bookings) : PathDone(p, i)
    /\ ncalls = MaxCalls
    /\ Len(payments) = 2
    /\ Len(ledger) = 2

(* ------------------------------------------------------------------ *)
(* Bookings and payments are written separately: claim C25             *)
(* ------------------------------------------------------------------ *)
\* The operation of the request worker p works on in this step.
StepOp(p) == IF call[p].pc = "idle" THEN call'[p].op ELSE call[p].op

\* The booking row i was cancelled from Pending, no envelope was prepared for it and
\* the ledger holds no hold for it.
CancelledUnpaid(i) ==
    /\ visited[i] = {PENDING, CANCELLED}
    /\ bookings[i].id \notin prepared
    /\ \A j \in 1..Len(ledger) : ledger[j].memo # Memo(HoldTag, bookings[i].id)

\* C25: a step of a status update leaves the payments and the ledger as they were, a
\* step of prepare, submit, release or refund leaves the bookings as they were, and
\* a booking cancelled from Pending that nothing was prepared or held for has no
\* payment row.
C25_BookingsAndPaymentsApart ==
    [][ /\ \A p \in Procs :
             call'[p] # call[p] =>
                /\ StepOp(p) = "status" => (payments' = payments /\ ledger' = ledger)
                /\ StepOp(p) \in SagaOps \cup EndpointOps => bookings' = bookings
        /\ \A i \in 1..Len(bookings') :
             (CancelledUnpaid(i) => RowsOfBooking(bookings[i].id) = {})'
      ]_vars

\* The client cancelled its Pending booking, with payments on record for no booking.
C25_Witness ==
    \E p \in Procs : \E i \in 1..Len(bookings) :
       /\ CancelledUnpaid(i)
       /\ call[p].op = "status" /\ call[p].pc = "done"
       /\ call[p].user = bookings[i].client_id /\ call[p].booking_id = bookings[i].id
       /\ call[p].req = CANCELLED /\ call[p].res.code = 200
       /\ bookings[i].status = CANCELLED
       /\ payments = <<>>

(* ------------------------------------------------------------------ *)
(* The memo limit: claim C26                                           *)
(* ------------------------------------------------------------------ *)
\* The memo is the text, or its first MAX_MEMO_LENGTH characters.
CutOf(memo, text) ==
    /\ Len(memo) <= MAX_MEMO_LENGTH
    /\ StartsWith(text, memo)

\* C26: the memo of the envelope prepare returns is at most 28 characters long and
\* starts "hold-" + booking id; the memo of the transaction a release or refund has
\* sent to the ledger is at most 28 characters long and starts "release-" + booking
\* id or "refund-" + booking id.
C26_MemoWithinLimit ==
    [][ \A p \in Procs :
           /\ (call[p].pc = "idle" /\ call'[p].res.status = "prepared") =>
                 CutOf(call'[p].res.unsigned_xdr.memo, HoldTag \o call'[p].booking_id)
           /\ (call[p].pc = "esc_submit" /\ call'[p].resp = "accepted") =>
                 /\ Len(ledger') = Len(ledger) + 1
                 /\ CutOf(ledger'[Len(ledger')].memo,
                          (IF call[p].op = "release" THEN ReleaseTag ELSE RefundTag)
                             \o call[p].booking_id)
      ]_vars

\* A release and a prepare have each built a memo that had to be cut.
C26_Witness ==
    /\ \E j \in 1..Len(ledger) :
          /\ ledger[j].source = ESCROW_PUBLIC
          /\ Len(ledger[j].memo) = MAX_MEMO_LENGTH
          /\ ledger[j].memo = SubSeq(ReleaseTag \o ledger[j].booking_id, 1, MAX_MEMO_LENGTH)
          /\ Len(ReleaseTag \o ledger[j].booking_id) > MAX_MEMO_LENGTH
    /\ \E p \in Procs :
          /\ HasPrepared(p)
          /\ Len(call[p].res.unsigned_xdr.memo) = MAX_MEMO_LENGTH
          /\ Len(HoldTag \o call[p].booking_id) > MAX_MEMO_LENGTH

(* ------------------------------------------------------------------ *)
(* Resolution and submission: claim C27                                *)
(* ------------------------------------------------------------------ *)
\* C27: a submit request that is answered "unable to resolve booking from transaction
\* memo" has not had its transaction accepted by the ledger.
C27_ResolvedBeforeSubmitted ==
    \A p \in Procs :
       ( /\ call[p].op \in {"submit", "post_submit"}
         /\ call[p].pc = "done"
         /\ call[p].res.detail = "Unable to resolve booking from transaction memo" )
       => (call[p].resp # "accepted" /\ Len(ledger) = call[p].ledger0)

(* ------------------------------------------------------------------ *)
(* The administrator's requests: claim C20                             *)
(* ------------------------------------------------------------------ *)
\* In this step worker p, serving an admin, decides a request on booking row i.
AdminDecides(p, i) ==
    /\ Decides(p)
    /\ RoleOf(call[p].user) = "admin"
    /\ bookings[i].id = call[p].booking_id

\* C20: whatever the stored status, an admin's request for a booking status is
\* accepted and stores that status; an admin's request with any other value is
\* denied and leaves every booking as it was.
C20_AdminForcesValidOnly ==
    [][ \A p \in Procs : \A i \in 1..Len(bookings) :
           AdminDecides(p, i) =>
              IF IsStatus(call[p].req) THEN Accepted(p, i) ELSE Denied(p)
      ]_vars

(* ------------------------------------------------------------------ *)
(* Payments and the booking's status: claim C19                        *)
(* ------------------------------------------------------------------ *)
\* The statuses of the booking rows with the id bid.
StatusOf(bid) == {bookings[i].status : i \in BookingIndex(bid)}

\* The step in which the request of worker p calls the ledger.
CallsLedger(p) == call[p].resp = "" /\ call'[p].resp # ""

\* C19: release calls the ledger only for a booking that is neither Pending nor
\* Cancelled, and refund only for a booking that is not Completed.
C19_PaymentActionsFollowStatus ==
    [][ \A p \in Procs :
           /\ (CallsLedger(p) /\ call[p].op = "release") =>
                 StatusOf(call[p].booking_id) \cap {PENDING, CANCELLED} = {}
           /\ (CallsLedger(p) /\ call[p].op = "refund") =>
                 COMPLETED \notin StatusOf(call[p].booking_id)
      ]_vars

(* ------------------------------------------------------------------ *)
(* Who may move escrowed funds: claim C28                              *)
(* ------------------------------------------------------------------ *)
\* The request c comes from an authenticated user who is an admin or a party of the
\* booking it names. The release and refund endpoints take no current user, so their
\* requests carry none (user = "").
AuthorizedFor(c) ==
    /\ c.user \in Users
    /\ \/ RoleOf(c.user) = "admin"
       \/ \E i \in BookingIndex(c.booking_id) :
             c.user \in {bookings[i].client_id, bookings[i].artisan_id}

\* C28: a release or refund request calls the ledger only for an authenticated caller
\* who is a party of the booking or an admin.
C28_EscrowMovesNeedAuthority ==
    [][ \A p \in Procs :
           (CallsLedger(p) /\ call[p].op \in {"release", "refund"}) => AuthorizedFor(call[p])
      ]_vars

(* ------------------------------------------------------------------ *)
(* What leaves escrow: claim C29                                       *)
(* ------------------------------------------------------------------ *)
\* The sum of the amounts of the entries of the sequence s whose index is in K.
RECURSIVE SumAmounts(_, _)
SumAmounts(s, K) ==
    IF K = {} THEN 0
    ELSE LET k == CHOOSE x \in K : TRUE
         IN  s[k].amount + SumAmounts(s, K \ {k})

\* What the release and refund transactions on the ledger paid out of escrow for bid.
PaidOut(bid) ==
    SumAmounts(ledger, {j \in 1..Len(ledger) :
                          ledger[j].source = ESCROW_PUBLIC /\ ledger[j].booking_id = bid})

\* What the held payments of the booking bid amount to.
HeldAmount(bid) == SumAmounts(payments, RowsOf(bid, PAY_PENDING))

\* C29: for every booking, the release and refund transactions on the ledger pay out
\* no more than the booking's held payments amount to.
C29_PaidOutWithinHeld ==
    \A i \in 1..Len(bookings) : PaidOut(bookings[i].id) <= HeldAmount(bookings[i].id)

(* ------------------------------------------------------------------ *)
(* Payment rows and ledger hashes: claim C30                           *)
(* ------------------------------------------------------------------ *)
\* Every payment row carries a hash, that of a transaction on the ledger, and no two
\* rows carry the same.
HashesSound ==
    \A k \in 1..Len(payments) :
       /\ payments[k].transaction_hash # 0
       /\ payments[k].transaction_hash \in LedgerHashes
       /\ \A k2 \in 1..Len(payments) :
             payments[k2].transaction_hash = payments[k].transaction_hash => k2 = k

\* In this step worker p tries to insert a row with a hash that is in use.
InsertsUsedHash(p) ==
    /\ call[p].pc \in {"sub_record", "esc_record"}
    /\ call'[p].pc = "done"
    /\ call[p].tx_hash \in PaymentHashes

\* C30: every payment row carries the non-null hash of a transaction the ledger had
\* accepted before the row was written, no two rows share a hash, and an insert with
\* a hash in use fails and leaves the payments as they were.
C30_RowsCarryLedgerHashes ==
    [][ /\ HashesSound'
        /\ Len(payments') > Len(payments) =>
              payments'[Len(payments')].transaction_hash \in LedgerHashes
        /\ \A p \in Procs :
              InsertsUsedHash(p) =>
                 (payments' = payments /\ call'[p].res.status = "error")
      ]_vars

\* An envelope was posted a second time: the ledger answered with the same hash and
\* the insert of a second row with it failed.
C30_Witness ==
    \E p \in Procs :
       /\ call[p].op = "submit" /\ call[p].pc = "done"
       /\ call[p].resp = "accepted"
       /\ call[p].tx_hash \in PaymentHashes
       /\ call[p].res.status = "error"
       /\ Len(payments) = call[p].rows0
       /\ Len(payments) > 0

(* ------------------------------------------------------------------ *)
(* The memo round trip: claim C13                                      *)
(* ------------------------------------------------------------------ *)
\* The envelope x carries the memo prepare_payment builds for the booking id b.
PreparedFor(x, b) ==
    x.parses /\ x.memo = prepare_payment(b, x.amount, x.source).unsigned_xdr.memo

\* The rows of bookings whose id starts with the token of the memo of x.
Matching(x) == {i \in 1..Len(bookings) : StartsWith(bookings[i].id, RemoveHold(x.memo))}

\* C13: for a booking id b that exists, submit resolves the memo prepare builds for b
\* to b when b is the only booking id that starts with the memo's token, and fails
\* without a payment row for the transaction when several ids start with it; no
\* payment with that memo is recorded for another booking.
C13_MemoRoundTrip ==
    \A b \in BookingIdPool :
       BookingIndex(b) # {} =>
          /\ \A p \in Procs :
                LET c == call[p]
                    x == XdrOf(c.xdr)
                IN  (c.pc = "done" /\ c.op = "submit" /\ c.resp = "accepted"
                        /\ PreparedFor(x, b)) =>
                       IF Matching(x) = BookingIndex(b)
                         THEN /\ c.resolved = b
                              /\ c.res.status = "success" =>
                                    payments[c.res.payment_id].booking_id = b
                         ELSE /\ c.resolved = NoId
                              /\ c.res.status = "error"
                              /\ \A k \in 1..Len(payments) :
                                    payments[k].transaction_hash # x.hash
          /\ \A k \in 1..Len(payments) :
                payments[k].memo = Memo(HoldTag, b) => payments[k].booking_id = b

\* With IdA and IdC booked, the hold prepared for IdA was recorded for IdA.
C13_Witness ==
    \E p \in Procs :
       /\ call[p].pc = "done" /\ call[p].op = "submit"
       /\ PreparedFor(XdrOf(call[p].xdr), IdA)
       /\ BookingIndex(IdA) # {} /\ BookingIndex(IdC) # {} /\ BookingIndex(IdB) = {}
       /\ call[p].res.status = "success"
       /\ payments[call[p].res.payment_id].booking_id = IdA

====
